---- MODULE Spec2Model ----
(***************************************************************************)
(* Power-curve engine of the fitness analysis backend.                     *)
(*                                                                         *)
(*   power_curve.rs  POWER_CURVE_BUCKETS, get_power_curve_buckets,         *)
(*                   calculate_power_curve, average                        *)
(*   main.rs         process_file: the normalisation of the Record         *)
(*                   messages into the Vec<u64> handed to the engine, and  *)
(*                   the loop over the multipart fields of a request       *)
(*                                                                         *)
(* Number representations.                                                 *)
(*   u64   A record [k, r] standing for k * 2^64 + r with k \in {0, 1}:    *)
(*         k = 0, r >= 0 is the small value r; k = 1, r < 0 is the value   *)
(*         2^64 + r, that is what `v as u64` gives for a negative i64 v.   *)
(*         Sums are taken modulo 2^64 on this form, exactly.               *)
(*   f32   A record [m, e] standing for m * 2^e, with 2^23 <= m < 2^24     *)
(*         (a 24 bit significand), or m = 0 for 0.0.  Conversions and the  *)
(*         division round to nearest, ties to even, as IEEE 754 does.      *)
(*         Only values >= 0 arise: the engine's samples are unsigned.      *)
(***************************************************************************)
EXTENDS Integers, Sequences, FiniteSets, TLC

VARIABLES
    records,          \* power field of each Record message of the uploaded file
    overflow_checks,  \* build profile: TRUE = arithmetic overflow panics (debug)
    power_data,       \* the Vec<u64> process_file hands to calculate_power_curve
    pc,               \* position of the call
    sample_count,     \* argument of get_power_curve_buckets
    buckets,          \* slice returned by get_power_curve_buckets
    slots,            \* output slots of the parallel collect, one per bucket
    curve,            \* Vec<(usize, f32)> returned by calculate_power_curve
    panic,            \* cause of the panic that ended the call, or "none"
    pending,          \* indices of the buckets whose closure has not run yet
    finish_order,     \* indices of the buckets in the order their closures ran
    sampler_calls,    \* invocations of get_power_curve_buckets in this call
    maximizer_calls,  \* invocations of the per-duration closure in this call
    staircase,        \* the lazy static behind POWER_CURVE_BUCKETS: its contents
    prev_curve,       \* <<c>>: the previous call, on the same data, returned c
    request,          \* the multipart fields of the request, in order
    field_no,         \* number of fields next_field() has yielded so far
    collection,       \* documents inserted into the collection, oldest first
    response          \* what process_file returned, or "none" while it runs

vars == <<records, overflow_checks, power_data, pc, sample_count, buckets,
          slots, pending, finish_order, curve, panic, sampler_calls,
          maximizer_calls, staircase, prev_curve,
                   request, field_no, collection, response>>

----------------------------------------------------------------------------
(* Bounds of the model *)

\* longest list of Record messages enumerated
MaxLen == 3

\* the sampler is probed this far on either side of each staircase breakpoint
Slack == 31

\* the sampler is probed for every sample count from 0 to SmallMax
SmallMax == 40

----------------------------------------------------------------------------
(* The staircase: power_curve.rs lines 5-31 *)

\* a ceiling of two days
MAX_DURATION_TwoDays == 2 * 86400

MAX_DURATION == 86400

\* (lo..=hi).step_by(step)
StepBy(lo, hi, step) ==
    [i \in 1..(IF hi < lo THEN 0 ELSE ((hi - lo) \div step) + 1) |-> lo + (i - 1) * step]

\* the third range started where the second one stops
POWER_CURVE_BUCKETS_From3630 ==
    StepBy(1, 300, 1) \o StepBy(310, 3600, 10) \o StepBy(3630, MAX_DURATION, 30)

\* a staircase whose second range starts on the last entry of the first
POWER_CURVE_BUCKETS_Overlap ==
    StepBy(1, 300, 1) \o StepBy(300, 3600, 10) \o StepBy(3700, MAX_DURATION, 30)

POWER_CURVE_BUCKETS ==
    StepBy(1, 300, 1) \o StepBy(310, 3600, 10) \o StepBy(3700, MAX_DURATION, 30)

Min(a, b) == IF a <= b THEN a ELSE b

\* POWER_CURVE_BUCKETS.iter().position(|&x| x > duration): index (from 0) of
\* the first entry above `limit`, or the table's length when there is none
position_gt(limit) ==
    LET B == POWER_CURVE_BUCKETS
        hit(i) == B[i] > limit /\ \A j \in 1..(i - 1) : ~(B[j] > limit)
    IN  IF \E i \in 1..Len(B) : hit(i)
        THEN (CHOOSE i \in 1..Len(B) : hit(i)) - 1
        ELSE Len(B)

\* the lazy static before its first use
Uninitialised == <<>>

\* Deref of the lazy static: the initialiser runs at the first use only
lazy_static_deref(cell) == IF cell = Uninitialised THEN POWER_CURVE_BUCKETS ELSE cell

\* a sampler that cuts the table itself down to the prefix it hands out
staircase_after_sampling_Truncate(cell, duration) ==
    SubSeq(lazy_static_deref(cell), 1, position_gt(Min(duration, MAX_DURATION)))

\* the table after get_power_curve_buckets(duration): &TABLE[..end_index]
\* borrows the prefix and leaves the table as it is
staircase_after_sampling(cell, duration) == lazy_static_deref(cell)

\* an off-by-one sampler: position(|&x| x > duration + 1)
get_power_curve_buckets_Late(duration) ==
    SubSeq(POWER_CURVE_BUCKETS, 1, position_gt(Min(duration, MAX_DURATION) + 1))

\* an off-by-one sampler: position(|&x| x >= duration)
get_power_curve_buckets_Early(duration) ==
    SubSeq(POWER_CURVE_BUCKETS, 1, position_gt(Min(duration, MAX_DURATION) - 1))

get_power_curve_buckets(duration) ==
    SubSeq(POWER_CURVE_BUCKETS, 1, position_gt(Min(duration, MAX_DURATION)))

----------------------------------------------------------------------------
(* u64 arithmetic: power_curve.rs line 49, main.rs lines 51-55 *)

U64Zero == [k |-> 0, r |-> 0]

\* `value as u64` for an i64 value
as_u64(value) == IF value >= 0 THEN [k |-> 0, r |-> value] ELSE [k |-> 1, r |-> value]

\* a + b exceeds u64::MAX
add_overflows(a, b) == a.k + b.k >= 2 \/ (a.k + b.k = 1 /\ a.r + b.r >= 0)

\* a + b modulo 2^64
wrapping_add(a, b) ==
    IF a.r + b.r < 0 THEN [k |-> 1, r |-> a.r + b.r] ELSE [k |-> 0, r |-> a.r + b.r]

\* slice.iter().sum::<u64>(): the left fold of + from 0; `over` tells whether
\* an addition overflowed, `val` is the sum modulo 2^64
\* (loops are local recursive functions: a function evaluates its arguments
\* once per application, as the loop does per iteration)
iter_sum(slice, i, acc) ==
    LET sum[j \in Nat, a \in [val : [k : Int, r : Int], over : BOOLEAN]] ==
            IF j > Len(slice) THEN a
            ELSE sum[j + 1,
                     [val  |-> wrapping_add(a.val, slice[j]),
                      over |-> a.over \/ add_overflows(a.val, slice[j])]]
    IN  sum[i, acc]

----------------------------------------------------------------------------
(* f32 arithmetic: power_curve.rs lines 42 and 50 *)

TwoTo23 == 8388608
TwoTo24 == 16777216

F32Zero == [m |-> 0, e |-> 0]

\* the f32 values m * 2^e, and the running sums of iter().sum()
F32 == [m : Nat, e : Int]
U64Sum == [val : [k : Int, r : Int], over : BOOLEAN]

\* scale a significand below 2^24 up into [2^23, 2^24)
f32_normalize(m, e) ==
    LET double[m1 \in Nat, e1 \in Int] ==
            IF m1 >= TwoTo23 THEN [m |-> m1, e |-> e1] ELSE double[2 * m1, e1 - 1]
    IN  double[m, e]

\* halve a significand of 2^24 or more down into [2^23, 2^24), keeping the
\* bits shifted out in `low` (out of `unit`) for the rounding
f32_shift_right(m, e, low, unit) ==
    LET halve[m0 \in Nat, e0 \in Int, l \in Nat, u \in Nat] ==
            IF m0 < TwoTo24
            THEN LET up == 2 * l > u \/ (2 * l = u /\ m0 % 2 = 1)
                     m1 == IF up THEN m0 + 1 ELSE m0
                 IN  IF m1 = TwoTo24 THEN [m |-> TwoTo23, e |-> e0 + 1]
                                     ELSE [m |-> m1, e |-> e0]
            ELSE halve[m0 \div 2, e0 + 1, l + u * (m0 % 2), 2 * u]
    IN  halve[m, e, low, unit]

\* `n as f32` for an integer 0 <= n < 2^31
int_as_f32(n) ==
    IF n = 0 THEN F32Zero
    ELSE IF n < TwoTo24 THEN f32_normalize(n, 0)
    ELSE f32_shift_right(n, 0, 0, 1)

\* `sum as f32` for a u64: 2^64 + r with -2^39 <= r < 0 rounds to 2^64
u64_as_f32(v) ==
    IF v.k = 0 THEN int_as_f32(v.r) ELSE [m |-> TwoTo23, e |-> 41]

\* the quotient bits of rem / den, most significant first
f32_long_div(rem, den, bits, q) ==
    LET step[r \in Nat, b \in Nat, q0 \in Nat] ==
            IF b = 0 THEN [q |-> q0, rem |-> r]
            ELSE LET bit == IF r >= den THEN 1 ELSE 0
                 IN  step[2 * (r - bit * den), b - 1, 2 * q0 + bit]
    IN  step[rem, bits, q]

\* a / b for f32 a >= 0 and b > 0: 24 quotient bits, rounded to nearest even
\* on the remainder
f32_div(a, b) ==
    LET round[qr \in [q : Nat, rem : Nat], den \in Nat, e0 \in Int] ==
            LET up == qr.rem > den \/ (qr.rem = den /\ qr.q % 2 = 1)
                q1 == IF up THEN qr.q + 1 ELSE qr.q
            IN  IF q1 = TwoTo24 THEN [m |-> TwoTo23, e |-> e0 + 1]
                                ELSE [m |-> q1, e |-> e0]
        div[x \in F32, y \in F32] ==
            IF x.m = 0 THEN F32Zero
            ELSE LET big == x.m >= y.m
                 IN  round[f32_long_div(IF big THEN x.m ELSE 2 * x.m, y.m, 24, 0),
                           y.m,
                           x.e - y.e - (IF big THEN 23 ELSE 24)]
    IN  div[a, b]

\* a < b for f32 a, b >= 0
f32_lt(a, b) ==
    IF b.m = 0 THEN FALSE
    ELSE IF a.m = 0 THEN TRUE
    ELSE a.e < b.e \/ (a.e = b.e /\ a.m < b.m)

\* a.max(b)
\* a.min(b)
f32_max_Min(a, b) ==
    LET min[x \in F32, y \in F32] == IF f32_lt(x, y) THEN x ELSE y
    IN  min[a, b]

f32_max(a, b) ==
    LET max[x \in F32, y \in F32] == IF f32_lt(x, y) THEN y ELSE x
    IN  max[a, b]

----------------------------------------------------------------------------
(* The window maximizer: power_curve.rs lines 39-51 *)

\* average(slice): `avg` is the value returned, `over` tells whether the sum
\* overflowed on the way (a panic under overflow checks)
\* an average that forgets the division: the window sum as f32
average_NoDivide(slice) ==
    LET mean[s \in U64Sum] == [avg |-> u64_as_f32(s.val), over |-> s.over]
    IN  mean[iter_sum(slice, 1, [val |-> U64Zero, over |-> FALSE])]

average(slice) ==
    LET mean[s \in U64Sum] ==
            [avg  |-> f32_div(u64_as_f32(s.val), int_as_f32(Len(slice))),
             over |-> s.over]
    IN  mean[iter_sum(slice, 1, [val |-> U64Zero, over |-> FALSE])]

\* a fold that keeps the latest average instead of the largest
window_fold_Last(data, duration, i, count, acc) ==
    LET keep[b \in [max : F32, over : BOOLEAN], a \in [avg : F32, over : BOOLEAN]] ==
            [max |-> a.avg, over |-> b.over \/ a.over]
        fold[j \in Nat, b \in [max : F32, over : BOOLEAN]] ==
            IF j >= count THEN b
            ELSE fold[j + 1, keep[b, average(SubSeq(data, j + 1, j + duration))]]
    IN  fold[i, acc]

\* (0..count).map(|i| average(&power_data[i..i + duration])).fold(0.0, max),
\* from window i on, with the running maximum in acc
window_fold(data, duration, i, count, acc) ==
    LET keep[b \in [max : F32, over : BOOLEAN], a \in [avg : F32, over : BOOLEAN]] ==
            [max |-> f32_max(b.max, a.avg), over |-> b.over \/ a.over]
        fold[j \in Nat, b \in [max : F32, over : BOOLEAN]] ==
            IF j >= count THEN b
            ELSE fold[j + 1, keep[b, average(SubSeq(data, j + 1, j + duration))]]
    IN  fold[i, acc]

\* the closure of .map(|duration| ...) for one duration: the (duration,
\* max_avg_power) pair it yields, or the panic that ends it.  A duration above
\* the sample count makes len - duration underflow: a panic under overflow
\* checks; without them the count wraps, to 0 for duration = len + 1 (no
\* window, the fold's seed is the result) and to a huge count otherwise, whose
\* first slice ends past the data.
map_closure(data, duration, checks) ==
    LET n == Len(data)
    IN  IF duration > n
        THEN IF checks THEN [panic |-> "subtract_overflow", item |-> <<>>]
             ELSE IF duration = n + 1
                  THEN [panic |-> "none", item |-> <<duration, F32Zero>>]
                  ELSE [panic |-> "slice_index", item |-> <<>>]
        ELSE LET f == window_fold(data, duration, 0, n - duration + 1,
                                  [max |-> F32Zero, over |-> FALSE])
             IN  IF f.over /\ checks
                 THEN [panic |-> "add_overflow", item |-> <<>>]
                 ELSE [panic |-> "none", item |-> <<duration, f.max>>]

----------------------------------------------------------------------------
(* The normalisation in process_file: main.rs lines 45-60 *)

\* a Record message's power field, as the i64 it converts to: <<v>>, or <<>>
\* when the field is missing or does not convert
SomePower(v) == <<v>>
NoPower == <<>>

PowerValues == {-10, 0, 5, 7}

\* entry.get("power").and_then(try_into).unwrap_or_default() as u64
power_sample(entry) == as_u64(IF entry = NoPower THEN 0 ELSE entry[1])

\* the map over the Record messages, collected into power_data
normalize(recs) == [i \in 1..Len(recs) |-> power_sample(recs[i])]

----------------------------------------------------------------------------
(* Inputs *)

RECURSIVE SeqsUpTo(_, _)
SeqsUpTo(S, n) ==
    IF n = 0 THEN {<<>>}
    ELSE LET shorter == SeqsUpTo(S, n - 1)
         IN  shorter \cup {Append(s, x) : s \in {t \in shorter : Len(t) = n - 1}, x \in S}

PowerFields == {NoPower} \cup {SomePower(v) : v \in PowerValues}

Scenarios ==
    { <<SomePower(100), SomePower(200), SomePower(300), SomePower(400)>>,
      <<SomePower(5), SomePower(-10)>>,
      <<SomePower(5592409), SomePower(5592409), SomePower(5592409)>> }

RecordInputs == SeqsUpTo(PowerFields, MaxLen) \cup Scenarios

Breakpoints == {300, 310, 3600, 3700, 86380, MAX_DURATION, 2 * MAX_DURATION}

SampleCounts ==
    (0..SmallMax) \cup {n \in {b + d : b \in Breakpoints, d \in (-Slack)..Slack} : n >= 0}

----------------------------------------------------------------------------
(* calculate_power_curve as called by process_file: power_curve.rs 33-46 *)

EmptySlot == <<>>

\* power_data.is_empty() with the early return dropped
is_empty_Never(data) == FALSE

is_empty(data) == Len(data) = 0

\* a collect that takes the items in the order the tasks finish
collect_place_Arrival(out, i, item) ==
    LET free == CHOOSE j \in 1..Len(out) :
                    out[j] = EmptySlot /\ \A h \in 1..(j - 1) : out[h] # EmptySlot
    IN  [out EXCEPT ![free] = item]

\* the indexed parallel collect writes the item of bucket i into slot i
collect_place(out, i, item) == [out EXCEPT ![i] = item]

Init ==
    /\ records = <<>>
    /\ overflow_checks \in BOOLEAN
    /\ power_data = <<>>
    /\ pc = "idle"
    /\ sample_count = 0
    /\ buckets = <<>>
    /\ slots = <<>>
    /\ pending = {}
    /\ finish_order = <<>>
    /\ curve = <<>>
    /\ panic = "none"
    /\ sampler_calls = 0
    /\ maximizer_calls = 0
    /\ staircase = Uninitialised
    /\ prev_curve = <<>>
    /\ request = <<>>
    /\ field_no = 0
    /\ collection = <<>>
    /\ response = "none"

\* process_file builds power_data from the Record messages and calls
\* calculate_power_curve, which returns at once on empty data and otherwise
\* fetches the buckets and fans the durations out
Upload(recs) ==
    /\ pc = "idle"
    /\ records' = recs
    /\ power_data' = normalize(recs)
    /\ IF is_empty(power_data')
       THEN /\ pc' = "returned"
            /\ curve' = <<>>
            /\ UNCHANGED <<sample_count, buckets, slots, pending, sampler_calls,
                           staircase>>
       ELSE /\ pc' = "running"
            /\ sample_count' = Len(power_data')
            /\ buckets' = get_power_curve_buckets(sample_count')
            /\ staircase' = staircase_after_sampling(staircase, sample_count')
            /\ sampler_calls' = sampler_calls + 1
            /\ slots' = [i \in 1..Len(buckets') |-> EmptySlot]
            /\ pending' = 1..Len(buckets')
            /\ UNCHANGED curve
    /\ UNCHANGED <<overflow_checks, finish_order, panic, maximizer_calls,
                   prev_curve,
                   request, field_no, collection, response>>

\* the same file is uploaded once more: process_file builds the same
\* power_data and calls calculate_power_curve on it again
UploadAgain ==
    /\ pc = "returned"
    /\ prev_curve' = <<curve>>
    /\ power_data' = normalize(records)
    /\ finish_order' = <<>>
    /\ maximizer_calls' = 0
    /\ IF is_empty(power_data')
       THEN /\ pc' = "returned"
            /\ curve' = <<>>
            /\ sample_count' = 0
            /\ buckets' = <<>>
            /\ slots' = <<>>
            /\ pending' = {}
            /\ sampler_calls' = 0
            /\ UNCHANGED staircase
       ELSE /\ pc' = "running"
            /\ curve' = <<>>
            /\ sample_count' = Len(power_data')
            /\ buckets' = get_power_curve_buckets(sample_count')
            /\ staircase' = staircase_after_sampling(staircase, sample_count')
            /\ sampler_calls' = 1
            /\ slots' = [i \in 1..Len(buckets') |-> EmptySlot]
            /\ pending' = 1..Len(buckets')
    /\ UNCHANGED <<records, overflow_checks, panic, request, field_no,
                   collection, response>>

\* a worker runs the closure for bucket i
Task(i) ==
    /\ pc = "running"
    /\ i \in pending
    /\ \E out \in {map_closure(power_data, buckets[i], overflow_checks)} :
           /\ maximizer_calls' = maximizer_calls + 1
           /\ pending' = pending \ {i}
           /\ finish_order' = Append(finish_order, i)
           /\ IF out.panic = "none"
              THEN /\ slots' = collect_place(slots, i, out.item)
                   /\ UNCHANGED <<pc, panic>>
              ELSE /\ pc' = "panicked"
                   /\ panic' = out.panic
                   /\ UNCHANGED slots
    /\ UNCHANGED <<records, overflow_checks, power_data, sample_count, buckets,
                   curve, sampler_calls, staircase, prev_curve,
                   request, field_no, collection, response>>

\* every closure has run: collect() hands the vector back
Collect ==
    /\ pc = "running"
    /\ pending = {}
    /\ curve' = slots
    /\ pc' = "returned"
    /\ UNCHANGED <<records, overflow_checks, power_data, sample_count, buckets,
                   slots, pending, finish_order, panic, sampler_calls,
                   maximizer_calls, staircase, prev_curve,
                   request, field_no, collection, response>>

Next ==
    \/ \E recs \in RecordInputs : Upload(recs)
    \/ \E i \in 1..Len(buckets) : Task(i)
    \/ Collect
    \/ UploadAgain

Spec == Init /\ [][Next]_vars

\* the thread pool runs every closure handed to it and collect() returns once
\* all of them have finished
FairSpec ==
    /\ Init
    /\ [][Next]_vars
    /\ WF_vars(\E i \in 1..Len(buckets) : Task(i))
    /\ WF_vars(Collect)

----------------------------------------------------------------------------
(* process_file over the multipart fields of one request: main.rs 30-90 *)

MaxFields == 2

\* one entry of the multipart stream.  `read` tells how far the handler gets
\* with it: next_field() fails ("stream_error"), bytes() fails
\* ("bytes_error"), from_reader fails ("parse_error"), or the file parses
\* into records ("parsed"); to_document and insert_one tell whether these
\* calls succeed on the document built from it.
Field(name, read, recs, ser, ins) ==
    [name |-> name, read |-> read, records |-> recs,
     to_document |-> ser, insert_one |-> ins]

FieldKinds ==
    { Field("other", "parsed", <<>>, TRUE, TRUE),
      Field("other", "parse_error", <<>>, TRUE, TRUE),
      Field("other", "stream_error", <<>>, TRUE, TRUE),
      Field("file", "bytes_error", <<>>, TRUE, TRUE),
      Field("file", "parse_error", <<>>, TRUE, TRUE),
      Field("file", "parsed", <<>>, TRUE, TRUE),
      Field("file", "parsed", <<SomePower(5), SomePower(7)>>, TRUE, TRUE),
      Field("file", "parsed", <<SomePower(-10), SomePower(-10)>>, TRUE, TRUE),
      Field("file", "parsed", <<SomePower(5)>>, FALSE, TRUE),
      Field("file", "parsed", <<SomePower(5)>>, TRUE, FALSE) }

Requests == SeqsUpTo(FieldKinds, MaxFields)

\* calculate_power_curve(&power_data) as one call: the curve, or the panic of
\* a closure
calculate_power_curve(data, checks) ==
    IF is_empty(data) THEN [panic |-> "none", curve |-> <<>>]
    ELSE LET durations == get_power_curve_buckets(Len(data))
             outs == [i \in 1..Len(durations) |-> map_closure(data, durations[i], checks)]
             bad  == {i \in 1..Len(durations) : outs[i].panic # "none"}
         IN  IF bad # {}
             THEN [panic |-> outs[CHOOSE i \in bad : TRUE].panic, curve |-> <<>>]
             ELSE [panic |-> "none", curve |-> [i \in 1..Len(durations) |-> outs[i].item]]

\* lines 37-78, for a field named "file": how the iteration ends ("panic",
\* "400", "500" or "inserted") and the power curve of the document built
process_content(f, checks) ==
    IF f.read = "bytes_error" THEN [exit |-> "panic", cause |-> "unwrap", curve |-> <<>>]
    ELSE IF f.read = "parse_error" THEN [exit |-> "400", cause |-> "none", curve |-> <<>>]
    ELSE LET out == calculate_power_curve(normalize(f.records), checks)
         IN  IF out.panic # "none"
             THEN [exit |-> "panic", cause |-> out.panic, curve |-> <<>>]
             ELSE IF ~f.to_document \/ ~f.insert_one
                  THEN [exit |-> "500", cause |-> "none", curve |-> out.curve]
                  ELSE [exit |-> "inserted", cause |-> "none", curve |-> out.curve]

\* a handler that forgets to test the name of the field
handle_field_AnyName(f, checks) ==
    IF f.read = "stream_error" THEN [exit |-> "panic", cause |-> "unwrap", curve |-> <<>>]
    ELSE process_content(f, checks)

\* lines 35-79: one iteration of the loop
handle_field(f, checks) ==
    IF f.read = "stream_error" THEN [exit |-> "panic", cause |-> "unwrap", curve |-> <<>>]
    ELSE IF f.name # "file" THEN [exit |-> "skipped", cause |-> "none", curve |-> <<>>]
    ELSE process_content(f, checks)

InitRequest ==
    /\ records = <<>>
    /\ overflow_checks \in BOOLEAN
    /\ power_data = <<>>
    /\ pc = "request"
    /\ sample_count = 0
    /\ buckets = <<>>
    /\ slots = <<>>
    /\ pending = {}
    /\ finish_order = <<>>
    /\ curve = <<>>
    /\ panic = "none"
    /\ sampler_calls = 0
    /\ maximizer_calls = 0
    /\ staircase = Uninitialised
    /\ prev_curve = <<>>
    /\ request \in Requests
    /\ field_no = 0
    /\ collection = <<>>
    /\ response = "none"

\* next_field() yields the next entry and the loop body handles it
NextField ==
    /\ pc = "request"
    /\ response = "none"
    /\ field_no < Len(request)
    /\ field_no' = field_no + 1
    /\ \E f \in {request[field_no + 1]} :
       \E out \in {handle_field(f, overflow_checks)} :
       LET ran == f.read = "parsed" /\ out.exit # "skipped"
       IN  /\ response' = IF out.exit \in {"skipped", "inserted"} THEN "none" ELSE out.exit
           /\ collection' = IF out.exit = "inserted"
                            THEN Append(collection, [field |-> field_no + 1,
                                                     power_curve |-> out.curve])
                            ELSE collection
           /\ panic' = IF out.exit = "panic" THEN out.cause ELSE panic
           /\ IF ran
              THEN /\ records' = f.records
                   /\ power_data' = normalize(f.records)
                   /\ curve' = out.curve
                   /\ staircase' = IF is_empty(power_data') THEN staircase
                                   ELSE staircase_after_sampling(staircase,
                                                                 Len(power_data'))
              ELSE UNCHANGED <<records, power_data, curve, staircase>>
    /\ UNCHANGED <<overflow_checks, pc, sample_count, buckets, slots, pending,
                   finish_order, sampler_calls, maximizer_calls, prev_curve,
                   request>>

\* next_field() yields None: the loop ends and the handler returns
\* Ok(Response::default())
EndOfFields ==
    /\ pc = "request"
    /\ response = "none"
    /\ field_no = Len(request)
    /\ response' = "200"
    /\ UNCHANGED <<records, overflow_checks, power_data, pc, sample_count, buckets,
                   slots, pending, finish_order, curve, panic, sampler_calls,
                   maximizer_calls, staircase, prev_curve, request, field_no,
                   collection>>

NextRequest == NextField \/ EndOfFields

SpecRequest == InitRequest /\ [][NextRequest]_vars

----------------------------------------------------------------------------
(* The sampler on its own, over sample counts up to and past the ceiling *)

InitBuckets ==
    /\ records = <<>>
    /\ overflow_checks \in BOOLEAN
    /\ power_data = <<>>
    /\ pc = "sampler"
    /\ sample_count \in SampleCounts
    /\ buckets = <<>>
    /\ slots = <<>>
    /\ pending = {}
    /\ finish_order = <<>>
    /\ curve = <<>>
    /\ panic = "none"
    /\ sampler_calls = 0
    /\ maximizer_calls = 0
    /\ staircase = Uninitialised
    /\ prev_curve = <<>>
    /\ request = <<>>
    /\ field_no = 0
    /\ collection = <<>>
    /\ response = "none"

GetBuckets ==
    /\ pc = "sampler"
    /\ buckets' = get_power_curve_buckets(sample_count)
    /\ staircase' = staircase_after_sampling(staircase, sample_count)
    /\ sampler_calls' = sampler_calls + 1
    /\ pc' = "sampled"
    /\ UNCHANGED <<records, overflow_checks, power_data, sample_count, slots,
                   pending, finish_order, curve, panic, maximizer_calls,
                   prev_curve,
                   request, field_no, collection, response>>

NextBuckets == GetBuckets

SpecBuckets == InitBuckets /\ [][NextBuckets]_vars

----------------------------------------------------------------------------
(* Properties of the sampler, checked under SpecBuckets *)

StaircaseEntries == {POWER_CURVE_BUCKETS[i] : i \in 1..Len(POWER_CURVE_BUCKETS)}

\* the three ranges of the staircase, as sets of integers
OneSecondRange == 1..300
TenSecondRange == {x \in 310..3600 : (x - 310) % 10 = 0}
ThirtySecondRange == {x \in 3700..86400 : (x - 3700) % 30 = 0}

LastBucket == POWER_CURVE_BUCKETS[Len(POWER_CURVE_BUCKETS)]

\* C2: get_power_curve_buckets(n) is a prefix of the global staircase, and
\* it holds exactly the staircase entries that are <= min(n, 86400): every
\* entry inside the prefix is <= the limit and every entry after it is above.
C2_PrefixUpToLimit ==
    pc = "sampled" =>
        LET limit == Min(sample_count, 86400)
        IN  /\ Len(buckets) <= Len(POWER_CURVE_BUCKETS)
            /\ \A i \in 1..Len(buckets) : buckets[i] = POWER_CURVE_BUCKETS[i]
            /\ \A i \in 1..Len(POWER_CURVE_BUCKETS) :
                   (POWER_CURVE_BUCKETS[i] <= limit) <=> (i <= Len(buckets))

\* a sample count that falls strictly between two staircase entries
C2_Witness ==
    /\ pc = "sampled"
    /\ Len(buckets) > 300
    /\ Len(buckets) < Len(POWER_CURVE_BUCKETS)
    /\ buckets[Len(buckets)] < sample_count

\* C3 as amended: the global staircase is exactly every integer from 1 to 300,
\* every 10th integer from 310 to 3600 and every 30th integer from 3700 that
\* is <= 86400, each once; the last of these is 86380, and 86400 is no entry.
C3_StaircaseEnds86380 ==
    pc = "sampled" =>
        /\ StaircaseEntries = OneSecondRange \cup TenSecondRange \cup ThirtySecondRange
        /\ Cardinality(StaircaseEntries) = Len(POWER_CURVE_BUCKETS)
        /\ LastBucket = 86380
        /\ \A x \in StaircaseEntries : x <= LastBucket
        /\ 86400 \notin StaircaseEntries

\* the sampler hands out the whole staircase, whose last entry is 86380
C3_Witness ==
    /\ pc = "sampled"
    /\ sample_count >= 86400
    /\ buckets = POWER_CURVE_BUCKETS
    /\ buckets[Len(buckets)] = 86380

\* C3 as stated: the same three ranges, with 86400 as the largest entry
C3_Original ==
    pc = "sampled" =>
        /\ StaircaseEntries = OneSecondRange \cup TenSecondRange \cup ThirtySecondRange
        /\ LastBucket = 86400
        /\ \A x \in StaircaseEntries : x <= LastBucket

----------------------------------------------------------------------------
(* Properties of calculate_power_curve, checked under Spec *)

\* C4: the returned curve has one entry per candidate duration: as many
\* entries as there are staircase entries <= min(n, 86400), each candidate
\* once; it is empty for n = 0.
C4_OneEntryPerCandidate ==
    pc = "returned" =>
        LET n == Len(power_data)
            candidates == {x \in StaircaseEntries : x <= Min(n, 86400)}
        IN  /\ Len(curve) = Cardinality(candidates)
            /\ \A x \in candidates :
                   Cardinality({i \in 1..Len(curve) : curve[i][1] = x}) = 1
            /\ n = 0 => curve = <<>>

\* a curve of several entries has been returned
C4_Witness ==
    /\ pc = "returned"
    /\ Len(power_data) >= 3
    /\ Len(curve) = Len(power_data)

\* C5: the returned curve is strictly ascending by duration, whatever the
\* order in which the closures ran.
C5_AscendingWhateverTheOrder ==
    pc = "returned" =>
        \A i, j \in 1..Len(curve) : i < j => curve[i][1] < curve[j][1]

\* the closure of a longer duration ran before that of a shorter one, and the
\* curve was returned
C5_Witness ==
    /\ pc = "returned"
    /\ Len(finish_order) >= 2
    /\ finish_order[1] > finish_order[2]
    /\ curve[1][1] < curve[2][1]

\* C6: every duration of a returned curve lies in 1..n, n the sample count.
C6_DurationsWithinSamples ==
    pc = "returned" =>
        \A i \in 1..Len(curve) : 1 <= curve[i][1] /\ curve[i][1] <= Len(power_data)

\* a curve whose last duration is the sample count itself
C6_Witness ==
    /\ pc = "returned"
    /\ Len(power_data) >= 2
    /\ curve[Len(curve)][1] = Len(power_data)

\* C7: a returned curve is empty exactly when there is no sample, and a call
\* on samples has at least one duration to evaluate.
C7_EmptyIffNoSamples ==
    /\ pc = "returned" => (curve = <<>> <=> Len(power_data) = 0)
    /\ pc = "running" => Len(slots) >= 1

\* the shortest non-empty input gives a curve of one entry
C7_Witness ==
    /\ pc = "returned"
    /\ Len(power_data) = 1
    /\ Len(curve) = 1

\* C8: the closure only runs for durations d with 1 <= d <= n: the window
\* count n - d + 1 is at least 1, every window [w, w + d) lies inside the
\* samples, and no call ends in the panic of an underflowing subtraction or
\* of a slice past the data.
C8_NoPartialWindow ==
    /\ panic \notin {"subtract_overflow", "slice_index"}
    /\ pc \in {"running", "returned", "panicked"} =>
           \A i \in 1..Len(buckets) :
               LET d == buckets[i]
                   n == Len(power_data)
               IN  /\ 1 <= d
                   /\ n - d + 1 >= 1
                   /\ \A w \in 0..(n - d) : 0 <= w /\ w + d <= n

\* the closure has run for the duration equal to the sample count, which has
\* exactly one window
C8_Witness ==
    /\ pc = "running"
    /\ Len(power_data) >= 2
    /\ \E h \in 1..Len(finish_order) : buckets[finish_order[h]] = Len(power_data)

\* C9: on an empty sample sequence the call has returned the empty curve, with
\* no panic, in its first step and without a call of the sampler or of the
\* maximizer.
C9_EmptyReturnsAtOnce ==
    (pc # "idle" /\ Len(power_data) = 0) =>
        /\ pc = "returned"
        /\ curve = <<>>
        /\ panic = "none"
        /\ sampler_calls = 0
        /\ maximizer_calls = 0

\* a file without Record messages has been processed
C9_Witness ==
    /\ pc = "returned"
    /\ records = <<>>
    /\ power_data = <<>>
    /\ curve = <<>>

----------------------------------------------------------------------------
(* The reported averages against the windows' means *)

\* the sum of a slice as the integer k * 2^64 + r, not reduced modulo 2^64
RECURSIVE integer_sum(_, _, _)
integer_sum(slice, i, acc) ==
    IF i > Len(slice) THEN acc
    ELSE integer_sum(slice, i + 1, [k |-> acc.k + slice[i].k, r |-> acc.r + slice[i].r])

\* the f32 nearest to k * 2^64 + r, for |r| < 2^39
integer_as_f32(s) ==
    IF s.k = 0 THEN int_as_f32(s.r)
    ELSE LET f == int_as_f32(s.k) IN [m |-> f.m, e |-> f.e + 64]

\* the arithmetic mean of the window [w, w + d) of data, as an f32
WindowMean(data, w, d) ==
    f32_div(integer_as_f32(integer_sum(SubSeq(data, w + 1, w + d), 1, U64Zero)),
            int_as_f32(d))

WindowMeans(data, d) == {WindowMean(data, w, d) : w \in 0..(Len(data) - d)}

\* some window sum of the data exceeds u64::MAX
SomeSumOverflows(data) ==
    \E d \in 1..Len(data) : \E w \in 0..(Len(data) - d) :
        integer_sum(SubSeq(data, w + 1, w + d), 1, U64Zero).k >= 2
        \/ (integer_sum(SubSeq(data, w + 1, w + d), 1, U64Zero).k = 1
            /\ integer_sum(SubSeq(data, w + 1, w + d), 1, U64Zero).r >= 0)

\* C1 as stated: every entry (d, best) of a returned curve has best equal to
\* the largest mean of a window of length d, floored at 0: best is the mean of
\* some window (or 0.0) and no window of length d has a larger mean.
C1_Original ==
    pc = "returned" =>
        \A i \in 1..Len(curve) :
            LET means == WindowMeans(power_data, curve[i][1])
            IN  /\ curve[i][2] \in means \cup {F32Zero}
                /\ \A a \in means \cup {F32Zero} : ~f32_lt(curve[i][2], a)

\* the same statement for the inputs none of whose window sums overflows
MaxMeanWhenSumsFit ==
    (pc = "returned" /\ ~SomeSumOverflows(power_data)) =>
        \A i \in 1..Len(curve) :
            LET means == WindowMeans(power_data, curve[i][1])
            IN  /\ curve[i][2] \in means \cup {F32Zero}
                /\ \A a \in means \cup {F32Zero} : ~f32_lt(curve[i][2], a)

\* C10 as stated: for the measured powers 5 and -10 the curve is
\* (1, 5.0), (2, 0.0).
C10_Original ==
    (pc = "returned" /\ records = <<SomePower(5), SomePower(-10)>>) =>
        curve = << <<1, int_as_f32(5)>>, <<2, F32Zero>> >>

----------------------------------------------------------------------------
(* Repeated calls *)

\* C11: a call on the same data as the call before it returns the same curve:
\* the same durations in the same order with the same averages, whatever the
\* order in which the closures of either call ran.
C11_SameCurveAgain ==
    (pc = "returned" /\ prev_curve # <<>>) => curve = prev_curve[1]

\* a second call has returned a curve of several entries after running the
\* closure of a longer duration first
C11_Witness ==
    /\ pc = "returned"
    /\ prev_curve # <<>>
    /\ Len(curve) >= 2
    /\ finish_order[1] > finish_order[2]
    /\ curve = prev_curve[1]

----------------------------------------------------------------------------
(* Constant data *)

\* every sample of the data equals the first one
IsConstant(data) == \A i \in 1..Len(data) : data[i] = data[1]

\* the f32 f is the integer c, exactly
f32_is_integer(f, c) ==
    /\ c.k = 0
    /\ f = int_as_f32(c.r)
    /\ (c.r < TwoTo24 \/ c.r % (2 ^ f.e) = 0)

\* the candidate durations of 310 samples are 1..300 and 310
Durations310 == [i \in 1..301 |-> IF i <= 300 THEN i ELSE 310]

Buckets310 == get_power_curve_buckets(310)

\* C12 as stated: the curve of samples all equal to c reports exactly c in
\* every entry.
C12_Original ==
    (pc = "returned" /\ power_data # <<>> /\ IsConstant(power_data)) =>
        \A i \in 1..Len(curve) : f32_is_integer(curve[i][2], power_data[1])

\* C12: the curve of n samples all equal to c, where n * c is below 2^24 (so
\* that every window sum is an f32), has one entry per candidate duration and
\* every entry reports exactly c; the candidate durations of 310 samples
\* (310 * 150 = 46,500) are 1..300 and 310.
C12_ConstantWhenSumExact ==
    /\ Buckets310 = Durations310
    /\ (/\ pc = "returned"
        /\ power_data # <<>>
        /\ IsConstant(power_data)
        /\ power_data[1].k = 0
        /\ Len(power_data) * power_data[1].r < TwoTo24) =>
            /\ Len(curve) = Len(buckets)
            /\ \A i \in 1..Len(curve) :
                   curve[i] = <<buckets[i], int_as_f32(power_data[1].r)>>

\* three samples of 7 have returned the curve (1, 7.0), (2, 7.0), (3, 7.0)
C12_Witness ==
    /\ pc = "returned"
    /\ records = <<SomePower(7), SomePower(7), SomePower(7)>>
    /\ curve = << <<1, int_as_f32(7)>>, <<2, int_as_f32(7)>>, <<3, int_as_f32(7)>> >>

----------------------------------------------------------------------------
(* Non-increasing data *)

\* a <= b for u64 a, b
u64_le(a, b) == a.k < b.k \/ (a.k = b.k /\ a.r <= b.r)

\* no sample is larger than the one before it
NonIncreasing(data) == \A i \in 1..(Len(data) - 1) : u64_le(data[i + 1], data[i])

\* the samples add up to less than 2^24
SumBelowTwoTo24(data) ==
    /\ \A i \in 1..Len(data) : data[i].k = 0
    /\ integer_sum(data, 1, U64Zero).r < TwoTo24

\* the best averages of a curve do not grow with the duration
BestNeverGrows(c) ==
    \A i, j \in 1..Len(c) : c[i][1] < c[j][1] => ~f32_lt(c[i][2], c[j][2])

\* C13 as stated: on non-increasing samples a longer candidate duration never
\* has a larger best average than a shorter one.
C13_Original ==
    (pc = "returned" /\ NonIncreasing(power_data)) => BestNeverGrows(curve)

\* C13: on non-increasing samples that add up to less than 2^24, a longer
\* candidate duration never has a larger best average than a shorter one.
C13_NonIncreasingWhenSumExact ==
    (pc = "returned" /\ NonIncreasing(power_data) /\ SumBelowTwoTo24(power_data)) =>
        BestNeverGrows(curve)

\* the samples 7, 5, 0 have returned a curve falling from 7.0 to 4.0
C13_Witness ==
    /\ pc = "returned"
    /\ records = <<SomePower(7), SomePower(5), SomePower(0)>>
    /\ Len(curve) = 3
    /\ curve[1] = <<1, int_as_f32(7)>>
    /\ curve[2] = <<2, int_as_f32(6)>>
    /\ curve[3] = <<3, int_as_f32(4)>>

----------------------------------------------------------------------------
(* The candidate durations as a set *)

\* C14: the durations returned for n samples are strictly ascending (so none
\* occurs twice) and are the staircase entries up to min(n, 86400): the
\* ascending enumeration of a set that n alone determines.
C14_StrictlyAscendingByCount ==
    pc = "sampled" =>
        /\ \A i \in 1..(Len(buckets) - 1) : buckets[i] < buckets[i + 1]
        /\ {buckets[i] : i \in 1..Len(buckets)}
               = {x \in StaircaseEntries : x <= Min(sample_count, 86400)}

\* the durations returned run over both changes of step, 300 to 310 and 3600
\* to 3700
C14_Witness ==
    /\ pc = "sampled"
    /\ Len(buckets) > 631
    /\ buckets[300] = 300
    /\ buckets[301] = 310
    /\ buckets[630] = 3600
    /\ buckets[631] = 3700

----------------------------------------------------------------------------
(* Independence of the per-duration computations *)

\* C15: whichever closures have run so far and in whatever order, the slot of
\* a duration holds nothing before its closure has run and afterwards the pair
\* that the samples and that duration alone determine; the curve returned is
\* made of these pairs.
C15_SlotsIndependentOfOrder ==
    /\ pc \in {"running", "panicked", "returned"} =>
           \A i \in 1..Len(slots) :
               LET out == map_closure(power_data, buckets[i], overflow_checks)
               IN  slots[i] = IF i \in pending \/ out.panic # "none"
                              THEN EmptySlot
                              ELSE out.item
    /\ pc = "returned" => curve = slots

\* of the samples 7, 5, 0 the closure of duration 3 has run first and that of
\* duration 1 second, while duration 2 is still to run
C15_Witness ==
    /\ pc = "running"
    /\ records = <<SomePower(7), SomePower(5), SomePower(0)>>
    /\ finish_order = <<3, 1>>
    /\ slots = << <<1, int_as_f32(7)>>, EmptySlot, <<3, int_as_f32(4)>> >>

----------------------------------------------------------------------------
(* The shared read-only state *)

\* C16: no step of any call, in any interleaving, changes the samples once
\* they have been handed over, and the staircase table, which its first use
\* initialises to the three ranges, never changes afterwards.
C16_SharedStateUnchanged ==
    [][ /\ pc # "idle" => power_data' = power_data
        /\ staircase # Uninitialised => staircase' = staircase
        /\ staircase = Uninitialised =>
               staircase' \in {Uninitialised, POWER_CURVE_BUCKETS} ]_vars

\* a second call on several samples has returned: the table is initialised
\* and the samples are those the normalisation produced
C16_Witness ==
    /\ pc = "returned"
    /\ prev_curve # <<>>
    /\ Len(curve) >= 2
    /\ staircase = POWER_CURVE_BUCKETS
    /\ power_data = normalize(records)

----------------------------------------------------------------------------
(* Running to completion *)

\* C17 as stated: a call that has started on its samples eventually returns
\* the complete curve, one result per candidate duration.
C17_Original ==
    (pc = "running") ~>
        (pc = "returned" /\ pending = {} /\ Len(curve) = Len(buckets))

----------------------------------------------------------------------------
(* The 24-hour ceiling *)

\* the candidate durations of a recording of exactly 24 hours
Buckets86400 == get_power_curve_buckets(86400)

\* C18: from 86,400 samples on the candidate durations are those of 86,400
\* samples, the whole staircase; for any sample count no candidate duration
\* exceeds 86,400 and there are at most 3,387 of them.
C18_CeilingStopsGrowth ==
    pc = "sampled" =>
        /\ sample_count >= 86400 =>
               buckets = Buckets86400 /\ buckets = POWER_CURVE_BUCKETS
        /\ \A i \in 1..Len(buckets) : buckets[i] <= 86400
        /\ Len(buckets) <= 3387

\* the sampler has run on a sample count above the ceiling
C18_Witness ==
    /\ pc = "sampled"
    /\ sample_count > 86400
    /\ Len(buckets) = 3387
    /\ buckets[Len(buckets)] = 86380

----------------------------------------------------------------------------
(* What the normalisation hands to the engine *)

\* C19 as stated: whatever samples process_file hands over, the u64 sum of
\* every window of every candidate duration is accumulated without overflow.
C19_Original ==
    pc # "idle" =>
        \A i \in 1..Len(buckets) :
            \A w \in 0..(Len(power_data) - buckets[i]) :
                ~iter_sum(SubSeq(power_data, w + 1, w + buckets[i]), 1,
                          [val |-> U64Zero, over |-> FALSE]).over

\* C20 as stated: the samples are the measured powers in record order, 0 for
\* a record without one, each a non-negative integer equal to the measurement.
C20_Original ==
    pc # "idle" =>
        /\ Len(power_data) = Len(records)
        /\ \A i \in 1..Len(records) :
               /\ power_data[i].k = 0
               /\ power_data[i].r >= 0
               /\ power_data[i].r = IF records[i] = NoPower THEN 0 ELSE records[i][1]

----------------------------------------------------------------------------
(* The resolution of the staircase *)

\* C21 as stated: consecutive entries of the staircase differ by exactly 1 up
\* to 300, by at most 10 between 300 and 3,600 and by at most 30 between 3,600
\* and 86,400; no two consecutive entries are more than 30 apart.
C21_Original ==
    staircase # Uninitialised =>
        \A i \in 1..(Len(staircase) - 1) :
            LET a == staircase[i]
                b == staircase[i + 1]
            IN  /\ b <= 300 => b - a = 1
                /\ (a >= 300 /\ b <= 3600) => b - a <= 10
                /\ a >= 3600 => b - a <= 30
                /\ b - a <= 30

\* C21: consecutive entries of the staircase differ by exactly 1 up to 300,
\* by exactly 10 from 300 to 3,600, by 100 from 3,600 to 3,700 and by exactly
\* 30 from 3,700 to the last entry, 86,380.
C21_ResolutionWithGap ==
    staircase # Uninitialised =>
        /\ \A i \in 1..(Len(staircase) - 1) :
               LET a == staircase[i]
                   b == staircase[i + 1]
               IN  /\ b <= 300 => b - a = 1
                   /\ (a >= 300 /\ b <= 3600) => b - a = 10
                   /\ a = 3600 => b = 3700
                   /\ a >= 3700 => b - a = 30
        /\ staircase[1] = 1
        /\ staircase[Len(staircase)] = 86380

\* the sampler has returned durations on both sides of the step from 3,600
\* to 3,700
C21_Witness ==
    /\ pc = "sampled"
    /\ staircase # Uninitialised
    /\ Len(buckets) >= 631
    /\ buckets[631] - buckets[630] = 100
    /\ staircase[631] - staircase[630] = 100

----------------------------------------------------------------------------
(* A maximizer on prefix sums *)

\* P[j] is the sum of the first j samples, as an integer
PrefixSums(data) ==
    [j \in 0..Len(data) |-> integer_sum(SubSeq(data, 1, j), 1, U64Zero)]

\* the sum of the window [w, w + d) as P[w + d] - P[w]
PrefixWindowSum(P, w, d) ==
    [k |-> P[w + d].k - P[w].k, r |-> P[w + d].r - P[w].r]

\* the largest mean of a window of length d, from 0.0, on prefix sums
PrefixSumBest(data, d) ==
    LET P     == PrefixSums(data)
        means == {f32_div(integer_as_f32(PrefixWindowSum(P, w, d)), int_as_f32(d)) :
                     w \in 0..(Len(data) - d)} \cup {F32Zero}
    IN  CHOOSE best \in means : \A a \in means : ~f32_lt(best, a)

\* the curve of the maximizer on prefix sums
PrefixSumCurve(data, durations) ==
    [i \in 1..Len(durations) |-> <<durations[i], PrefixSumBest(data, durations[i])>>]

\* C22 as stated: on every sample sequence the source's maximizer returns
\* the curve that the maximizer on prefix sums returns.
C22_Original ==
    /\ pc # "panicked"
    /\ (pc = "returned" /\ power_data # <<>>) =>
           curve = PrefixSumCurve(power_data, buckets)

----------------------------------------------------------------------------
(* The curve may rise *)

\* C23: the curve is not monotone in general: for the non-negative samples
\* a, 0, a with a > 0 the durations 2 < 3 are both candidates and the best
\* average of duration 2 (a / 2) is below that of duration 3 (2a / 3).
C23_CurveMayRise ==
    (/\ pc = "returned"
     /\ Len(power_data) = 3
     /\ power_data[1].k = 0
     /\ power_data[1].r > 0
     /\ power_data[2] = U64Zero
     /\ power_data[3] = power_data[1]) =>
        /\ Len(curve) = 3
        /\ curve[2][1] = 2
        /\ curve[3][1] = 3
        /\ f32_lt(curve[2][2], curve[3][2])

\* the measured powers 7, 0, 7 have returned a curve that rises from 3.5 at
\* duration 2 to 14 / 3 at duration 3
C23_Witness ==
    /\ pc = "returned"
    /\ records = <<SomePower(7), SomePower(0), SomePower(7)>>
    /\ curve[2] = <<2, f32_div(int_as_f32(7), int_as_f32(2))>>
    /\ curve[3] = <<3, f32_div(int_as_f32(14), int_as_f32(3))>>
    /\ f32_lt(curve[2][2], curve[3][2])

----------------------------------------------------------------------------
(* The fields of a request *)

\* the document of field i of the request is in the collection
Stored(i) == \E j \in 1..Len(collection) : collection[j].field = i

====
